---- MODULE Spec2Model ----
(***************************************************************************)
(* Model of components/babysitter.py: emit_configuration(), the builder    *)
(* that registers the babysitter stack (queue, alarm topic, queue-depth    *)
(* alarm, IAM role, instance profile, security group, launch configuration *)
(* and auto scaling group) into the shared troposphere template.           *)
(*                                                                         *)
(* Python strings that the code joins, sanitizes or uses as titles are     *)
(* sequences of one-character strings, so that joining and sanitizing are  *)
(* computed character by character.  Text that is only carried along is a  *)
(* TLA+ string.                                                            *)
(***************************************************************************)
EXTENDS Naturals, Sequences, FiniteSets

VARIABLES
    CLOUDNAME,            \* config.CLOUDNAME
    CLOUDENV,             \* config.CLOUDENV
    CIDR_PREFIX,          \* config.CIDR_PREFIX (imported, never used)
    DEFAULT_ROUTE,        \* config.DEFAULT_ROUTE
    USE_PRIVATE_SUBNETS,  \* config.USE_PRIVATE_SUBNETS
    files,                \* state of the template files load_template reads
    parameters,           \* template.parameters, in insertion order
    resources,            \* template.resources, in insertion order
    locals,               \* local variables of emit_configuration
    pc,                   \* position in emit_configuration
    error                 \* the exception that ended the run, or "none"

vars == <<CLOUDNAME, CLOUDENV, CIDR_PREFIX, DEFAULT_ROUTE, USE_PRIVATE_SUBNETS,
          files, parameters, resources, locals, pc, error>>

config == <<CLOUDNAME, CLOUDENV, CIDR_PREFIX, DEFAULT_ROUTE,
            USE_PRIVATE_SUBNETS, files>>

-----------------------------------------------------------------------------
(* Bounds of the model. *)

\* Longest cloud and environment name drawn for a run.
MaxNameLen == 2

\* Characters cloud and environment names are drawn from: one alphanumeric
\* character and one that sanitize_id removes.
NameChars == {"a", "_"}

-----------------------------------------------------------------------------
(* String literals of the source, as character sequences. *)

ChefDeregistration ==
    <<"c", "h", "e", "f", "-", "d", "e", "r", "e", "g", "i", "s", "t", "r",
      "a", "t", "i", "o", "n">>

Babysitter ==
    <<"b", "a", "b", "y", "s", "i", "t", "t", "e", "r">>

BabysitterSg ==
    <<"b", "a", "b", "y", "s", "i", "t", "t", "e", "r", "-", "s", "g">>

BabysitterInstanceType ==
    <<"B", "a", "b", "y", "s", "i", "t", "t", "e", "r", "I", "n", "s", "t",
      "a", "n", "c", "e", "T", "y", "p", "e">>

BabysitterAlarmEmail ==
    <<"B", "a", "b", "y", "s", "i", "t", "t", "e", "r", "A", "l", "a", "r",
      "m", "E", "m", "a", "i", "l">>

BabysitterAlarmTopic ==
    <<"B", "a", "b", "y", "s", "i", "t", "t", "e", "r", "A", "l", "a", "r",
      "m", "T", "o", "p", "i", "c">>

BabysitterQueueDepthAlarm ==
    <<"B", "a", "b", "y", "s", "i", "t", "t", "e", "r", "Q", "u", "e", "u",
      "e", "D", "e", "p", "t", "h", "A", "l", "a", "r", "m">>

BabysitterIamRole ==
    <<"B", "a", "b", "y", "s", "i", "t", "t", "e", "r", "I", "a", "m", "R",
      "o", "l", "e">>

BabysitterInstanceProfile ==
    <<"B", "a", "b", "y", "s", "i", "t", "t", "e", "r", "I", "n", "s", "t",
      "a", "n", "c", "e", "P", "r", "o", "f", "i", "l", "e">>

BabysitterSecurityGroup ==
    <<"B", "a", "b", "y", "s", "i", "t", "t", "e", "r", "S", "e", "c", "u",
      "r", "i", "t", "y", "G", "r", "o", "u", "p">>

BabysitterLaunchConfiguration ==
    <<"B", "a", "b", "y", "s", "i", "t", "t", "e", "r", "L", "a", "u", "n",
      "c", "h", "C", "o", "n", "f", "i", "g", "u", "r", "a", "t", "i", "o",
      "n">>

BabysitterASG ==
    <<"B", "a", "b", "y", "s", "i", "t", "t", "e", "r", "A", "S", "G">>

AwsRegion ==
    <<"A", "W", "S", ":", ":", "R", "e", "g", "i", "o", "n">>

-----------------------------------------------------------------------------
(* Python values and built-ins used by the builder. *)

\* The Python value None: a one-element sequence that is no character string.
None == <<"None">>

\* A local variable that has not been assigned yet.
Unset == "unset"

\* str.join: the parts separated by sep.
RECURSIVE Join(_, _)
Join(sep, parts) ==
    IF Len(parts) = 0 THEN <<>>
    ELSE IF Len(parts) = 1 THEN parts[1]
    ELSE parts[1] \o sep \o Join(sep, Tail(parts))

\* str.join raises TypeError when an item of the list is not a string.
JoinRaises(parts) == \E i \in 1..Len(parts) : parts[i] = None

\* Characters for which str.isalnum is true.
Alnum ==
    {"a", "b", "c", "d", "e", "f", "g", "h", "i", "j", "k", "l", "m", "n",
     "o", "p", "q", "r", "s", "t", "u", "v", "w", "x", "y", "z",
     "A", "B", "C", "D", "E", "F", "G", "H", "I", "J", "K", "L", "M", "N",
     "O", "P", "Q", "R", "S", "T", "U", "V", "W", "X", "Y", "Z",
     "0", "1", "2", "3", "4", "5", "6", "7", "8", "9"}

\* troposphere.Ref(obj): a symbolic reference to the title of obj.
Ref(obj) == [fn |-> "Ref", target |-> obj.title]

\* troposphere.Ref("AWS::Region"): a reference to a pseudo parameter.
RefName(name) == [fn |-> "Ref", target |-> name]

\* troposphere.GetAtt(obj, attr): a symbolic reference to an attribute of obj.
GetAtt(obj, attr) == [fn |-> "GetAtt", target |-> obj.title, attr |-> attr]

-----------------------------------------------------------------------------
(* The config module (imported as cfn), which the builder calls. *)

\* cfn.sanitize_id: the identifier with every non-alphanumeric character
\* removed, which is what a troposphere title has to be.
RECURSIVE sanitize_id(_)
sanitize_id(s) ==
    IF Len(s) = 0 THEN <<>>
    ELSE IF Head(s) \in Alnum THEN <<Head(s)>> \o sanitize_id(Tail(s))
    ELSE sanitize_id(Tail(s))

\* cfn.vpcs: the VPC resources config declared; the builder uses the first.
vpcs == << [title |-> <<"V", "p", "c">>] >>

\* cfn.keyname: the key-pair parameter config declared.
keyname == [title |-> <<"K", "e", "y", "N", "a", "m", "e">>]

\* cfn.get_vpc_subnets(vpc, cfn.SubnetTypes.PLATFORM): the platform subnets.
get_vpc_subnets(vpc, tier) ==
    << [title |-> vpc.title \o <<"P", "l", "a", "t", "f", "o", "r", "m", "1">>],
       [title |-> vpc.title \o <<"P", "l", "a", "t", "f", "o", "r", "m", "2">>] >>

\* cfn.get_asg_azs(): the availability zones of the region.
get_asg_azs == <<"az1", "az2">>

\* cfn.usable_instances(): the instance types the parameter allows.
usable_instances == <<"t2.micro", "t2.small">>

\* The template files the builder renders.
TemplateFiles ==
    {"babysitter_policy.json.j2", "default_policy.json.j2",
     "default-init.bash.j2"}

\* cfn.load_template raises a not-found error for a missing template file.
LoadRaises(name) == files[name] = "missing"

\* cfn.load_template(name, vars): the text rendered from the template.
load_template(name, tvars) == [template |-> name, vars |-> tvars]

\* json.loads raises ValueError when the rendered text is not JSON.
JsonRaises(name) == files[name] = "malformed"

\* json.loads(text): the parsed document.
json_loads(text) == [json |-> text]

-----------------------------------------------------------------------------
(* The initial state: the configuration is set, the template is empty. *)

\* Character strings of length at most n over NameChars.
Strings(n) == UNION {[1..k -> NameChars] : k \in 0..n}

\* The names of the documented example: cloud "acme", environment "prod".
Acme == <<"a", "c", "m", "e">>

Prod == <<"p", "r", "o", "d">>

\* Values of a name in the configuration: a string, or None when unset.
NameValues == Strings(MaxNameLen) \cup {Acme, Prod} \cup {None}

\* States of a template file.
FileStates == {"ok", "missing", "malformed"}

NoLocals ==
    [babysitter_instance_class |-> Unset, babysitter_email_param |-> Unset,
     queue_name |-> Unset, queue |-> Unset, alert_topic |-> Unset,
     queue_depth_alarm |-> Unset, babysitter_role_name |-> Unset,
     babysitter_iam_role |-> Unset, babysitter_instance_profile |-> Unset,
     babysitter_user_data |-> Unset, ingress_rules |-> Unset,
     security_group |-> Unset, launch_cfg |-> Unset, asg_name |-> Unset,
     asg |-> Unset]

Init ==
    /\ CLOUDNAME \in NameValues
    /\ CLOUDENV \in NameValues
    /\ CIDR_PREFIX \in {"10.0", "10.1"}
    /\ DEFAULT_ROUTE \in {"0.0.0.0/0", "10.0.0.0/8"}
    /\ USE_PRIVATE_SUBNETS \in BOOLEAN
    /\ files \in [TemplateFiles -> FileStates]
    /\ files["default-init.bash.j2"] # "malformed"
    /\ parameters = <<>>
    /\ resources = <<>>
    /\ locals = NoLocals
    /\ pc = "instance_type_param"
    /\ error = "none"

-----------------------------------------------------------------------------
(* Steps shared by the statements of emit_configuration. *)

\* template.add_parameter(p): p is added to the template and returned.
add_parameter(p) == parameters' = Append(parameters, p)

\* template.add_resource(r): r is added to the template and returned.
add_resource(r) == resources' = Append(resources, r)

\* An exception leaves emit_configuration: nothing after it runs, and what
\* the template already holds stays in it.
Raise(e) ==
    /\ pc' = "failed"
    /\ error' = e
    /\ UNCHANGED <<parameters, resources, locals>>

\* The template variables both policy templates are rendered with.
PolicyVars == [env |-> CLOUDENV, cloud |-> CLOUDNAME, region |-> "us-east-1"]

-----------------------------------------------------------------------------
(* The statements of emit_configuration, in program order. *)

\* babysitter_instance_class = template.add_parameter(Parameter(...))
InstanceTypeParameter ==
    [title |-> BabysitterInstanceType, Type |-> "String",
     Default |-> "t2.micro",
     Description |-> "Chef babysitter instance type",
     AllowedValues |-> usable_instances,
     ConstraintDescription |-> "Instance size must be a valid instance type"]

AddInstanceTypeParameter ==
    /\ pc = "instance_type_param"
    /\ add_parameter(InstanceTypeParameter)
    /\ locals' = [locals EXCEPT
                    !.babysitter_instance_class = InstanceTypeParameter]
    /\ pc' = "email_param"
    /\ UNCHANGED <<config, resources, error>>

\* babysitter_email_param = template.add_parameter(Parameter(...))
AlarmEmailParameter ==
    [title |-> BabysitterAlarmEmail, Default |-> "wlee@leaf.me",
     Description |->
       "Email address to notify if tehre are issues in the babysitter queue",
     Type |-> "String"]

AddAlarmEmailParameter ==
    /\ pc = "email_param"
    /\ add_parameter(AlarmEmailParameter)
    /\ locals' = [locals EXCEPT !.babysitter_email_param = AlarmEmailParameter]
    /\ pc' = "queue_name"
    /\ UNCHANGED <<config, resources, error>>

\* Variant of QueueNameParts: environment and cloud in the wrong order.
QueueNamePartsSwapped == <<ChefDeregistration, CLOUDENV, CLOUDNAME>>

\* queue_name = '_'.join(['chef-deregistration', CLOUDNAME, CLOUDENV])
QueueNameParts == <<ChefDeregistration, CLOUDNAME, CLOUDENV>>

BuildQueueName ==
    /\ pc = "queue_name"
    /\ IF JoinRaises(QueueNameParts)
       THEN Raise("TypeError")
       ELSE /\ locals' = [locals EXCEPT
                            !.queue_name = Join(<<"_">>, QueueNameParts)]
            /\ pc' = "queue"
            /\ UNCHANGED <<parameters, resources, error>>
    /\ UNCHANGED config

\* sqs.Queue(cfn.sanitize_id(queue_name), ...)
Queue ==
    [kind |-> "Queue", title |-> sanitize_id(locals.queue_name),
     DependsOn |-> <<>>,
     props |-> [VisibilityTimeout |-> 60,
                MessageRetentionPeriod |-> 1209600,
                MaximumMessageSize |-> 16384,
                QueueName |-> locals.queue_name]]

\* Variant of AddQueue: the queue is built but never added to the template.
AddQueueUnregistered ==
    /\ pc = "queue"
    /\ locals' = [locals EXCEPT !.queue = Queue]
    /\ pc' = "alert_topic"
    /\ UNCHANGED <<config, parameters, resources, error>>

\* queue = template.add_resource(sqs.Queue(...))
AddQueue ==
    /\ pc = "queue"
    /\ add_resource(Queue)
    /\ locals' = [locals EXCEPT !.queue = Queue]
    /\ pc' = "alert_topic"
    /\ UNCHANGED <<config, parameters, error>>

\* sns.Topic("BabysitterAlarmTopic", ...)
Topic ==
    [kind |-> "Topic", title |-> BabysitterAlarmTopic,
     DependsOn |-> <<locals.queue.title>>,
     props |-> [DisplayName |-> "Babysitter Alarm",
                TopicName |-> locals.queue_name,
                Subscription |->
                  << [Endpoint |-> Ref(locals.babysitter_email_param),
                      Protocol |-> "email"] >>]]

\* Variant of AddAlertTopic: the topic is registered under the queue's title.
AddAlertTopicQueueTitle ==
    /\ pc = "alert_topic"
    /\ add_resource([Topic EXCEPT !.title = locals.queue.title])
    /\ locals' = [locals EXCEPT !.alert_topic = Topic]
    /\ pc' = "queue_depth_alarm"
    /\ UNCHANGED <<config, parameters, error>>

\* alert_topic = template.add_resource(sns.Topic(...))
AddAlertTopic ==
    /\ pc = "alert_topic"
    /\ add_resource(Topic)
    /\ locals' = [locals EXCEPT !.alert_topic = Topic]
    /\ pc' = "queue_depth_alarm"
    /\ UNCHANGED <<config, parameters, error>>

\* cloudwatch.Alarm("BabysitterQueueDepthAlarm", ...)
Alarm ==
    [kind |-> "Alarm", title |-> BabysitterQueueDepthAlarm,
     DependsOn |-> <<locals.alert_topic.title>>,
     props |-> [AlarmDescription |->
                  "Alarm if the queue depth grows beyond 200 messages",
                Namespace |-> "AWS/SQS",
                MetricName |-> "ApproximateNumberOfMessagesVisible",
                Dimensions |->
                  << [Name |-> "QueueName",
                      Value |-> GetAtt(locals.queue, "QueueName")] >>,
                Statistic |-> "Sum",
                Period |-> "300",
                EvaluationPeriods |-> "1",
                Threshold |-> "200",
                ComparisonOperator |-> "GreaterThanThreshold",
                AlarmActions |-> <<Ref(locals.alert_topic)>>,
                InsufficientDataActions |-> <<Ref(locals.alert_topic)>>]]

\* Variant of AddQueueDepthAlarm: the dimension refers to the topic's name.
AddQueueDepthAlarmOnTopic ==
    /\ pc = "queue_depth_alarm"
    /\ add_resource([Alarm EXCEPT
           !.props.Dimensions =
               << [Name |-> "QueueName",
                   Value |-> GetAtt(locals.alert_topic, "TopicName")] >>])
    /\ locals' = [locals EXCEPT !.queue_depth_alarm = Alarm]
    /\ pc' = "role_name"
    /\ UNCHANGED <<config, parameters, error>>

\* Variant of AddQueueDepthAlarm: the alarm depends on the launch
\* configuration, which is registered after it.
AddQueueDepthAlarmForward ==
    /\ pc = "queue_depth_alarm"
    /\ add_resource([Alarm EXCEPT
           !.DependsOn = <<BabysitterLaunchConfiguration>>])
    /\ locals' = [locals EXCEPT !.queue_depth_alarm = Alarm]
    /\ pc' = "role_name"
    /\ UNCHANGED <<config, parameters, error>>

\* queue_depth_alarm = template.add_resource(cloudwatch.Alarm(...))
AddQueueDepthAlarm ==
    /\ pc = "queue_depth_alarm"
    /\ add_resource(Alarm)
    /\ locals' = [locals EXCEPT !.queue_depth_alarm = Alarm]
    /\ pc' = "role_name"
    /\ UNCHANGED <<config, parameters, error>>

\* babysitter_role_name = '.'.join(['babysitter', CLOUDNAME, CLOUDENV])
BuildRoleName ==
    /\ pc = "role_name"
    /\ locals' = [locals EXCEPT
                    !.babysitter_role_name =
                        Join(<<".">>, <<Babysitter, CLOUDNAME, CLOUDENV>>)]
    /\ pc' = "iam_role"
    /\ UNCHANGED <<config, parameters, resources, error>>

\* iam.Policy(PolicyName=..., PolicyDocument=json.loads(cfn.load_template(...)))
Policy(name, file) ==
    [PolicyName |-> name,
     PolicyDocument |-> json_loads(load_template(file, PolicyVars))]

\* iam.Role('BabysitterIamRole', ...)
Role ==
    [kind |-> "Role", title |-> BabysitterIamRole,
     DependsOn |-> <<vpcs[1].title>>,
     props |-> [AssumeRolePolicyDocument |-> "ASSUME_ROLE_POLICY",
                Path |-> "/",
                Policies |->
                  << Policy("BabySitterPolicy", "babysitter_policy.json.j2"),
                     Policy("BabySitterDefaultPolicy",
                            "default_policy.json.j2") >>]]

\* The exception raised while the two policy documents are built, first
\* policy first, or "none".
RoleError ==
    IF LoadRaises("babysitter_policy.json.j2") THEN "TemplateNotFound"
    ELSE IF JsonRaises("babysitter_policy.json.j2") THEN "ValueError"
    ELSE IF LoadRaises("default_policy.json.j2") THEN "TemplateNotFound"
    ELSE IF JsonRaises("default_policy.json.j2") THEN "ValueError"
    ELSE "none"

\* Variant of AddIamRole: a failure to build the policy documents is
\* swallowed and the role is registered without policies.
AddIamRoleSwallowing ==
    /\ pc = "iam_role"
    /\ IF RoleError # "none"
       THEN /\ add_resource([Role EXCEPT !.props.Policies = <<>>])
            /\ locals' = [locals EXCEPT !.babysitter_iam_role = Role]
       ELSE /\ add_resource(Role)
            /\ locals' = [locals EXCEPT !.babysitter_iam_role = Role]
    /\ pc' = "instance_profile"
    /\ UNCHANGED <<config, parameters, error>>

\* babysitter_iam_role = template.add_resource(iam.Role(...))
AddIamRole ==
    /\ pc = "iam_role"
    /\ IF RoleError # "none"
       THEN Raise(RoleError)
       ELSE /\ add_resource(Role)
            /\ locals' = [locals EXCEPT !.babysitter_iam_role = Role]
            /\ pc' = "instance_profile"
            /\ UNCHANGED <<parameters, error>>
    /\ UNCHANGED config

\* iam.InstanceProfile("BabysitterInstanceProfile", ...)
InstanceProfile ==
    [kind |-> "InstanceProfile", title |-> BabysitterInstanceProfile,
     DependsOn |-> <<locals.babysitter_iam_role.title>>,
     props |-> [Path |-> "/",
                Roles |-> <<Ref(locals.babysitter_iam_role)>>]]

\* babysitter_instance_profile = template.add_resource(iam.InstanceProfile(...))
AddInstanceProfile ==
    /\ pc = "instance_profile"
    /\ add_resource(InstanceProfile)
    /\ locals' = [locals EXCEPT !.babysitter_instance_profile = InstanceProfile]
    /\ pc' = "user_data"
    /\ UNCHANGED <<config, parameters, error>>

\* babysitter_user_data = cfn.load_template("default-init.bash.j2", {...})
LoadUserData ==
    /\ pc = "user_data"
    /\ IF LoadRaises("default-init.bash.j2")
       THEN Raise("TemplateNotFound")
       ELSE /\ locals' = [locals EXCEPT
                            !.babysitter_user_data =
                                load_template("default-init.bash.j2",
                                    [env |-> CLOUDENV, cloud |-> CLOUDNAME,
                                     deploy |-> "babysitter"])]
            /\ pc' = "ingress_rules"
            /\ UNCHANGED <<parameters, resources, error>>
    /\ UNCHANGED config

\* Variant of IngressPorts: a second port is opened.
IngressPortsWide == <<22, 443>>

\* The ports the ingress rules are built for: [22].
IngressPorts == <<22>>

\* ec2.SecurityGroupRule(IpProtocol='tcp', CidrIp=DEFAULT_ROUTE,
\*                       FromPort=p, ToPort=p)
SecurityGroupRule(p) ==
    [IpProtocol |-> "tcp", CidrIp |-> DEFAULT_ROUTE,
     FromPort |-> p, ToPort |-> p]

\* ingress_rules = [ec2.SecurityGroupRule(...) for p in [22]]
BuildIngressRules ==
    /\ pc = "ingress_rules"
    /\ locals' = [locals EXCEPT
                    !.ingress_rules =
                        [i \in 1..Len(IngressPorts) |->
                            SecurityGroupRule(IngressPorts[i])]]
    /\ pc' = "security_group"
    /\ UNCHANGED <<config, parameters, resources, error>>

\* ec2.SecurityGroup("BabysitterSecurityGroup", ...)
SecurityGroup ==
    [kind |-> "SecurityGroup", title |-> BabysitterSecurityGroup,
     DependsOn |-> <<vpcs[1].title>>,
     props |-> [GroupDescription |->
                  "Security Group for babysitter instances",
                VpcId |-> Ref(vpcs[1]),
                SecurityGroupIngress |-> locals.ingress_rules,
                Tags |-> [Name |-> Join(<<".">>,
                              <<BabysitterSg, CLOUDNAME, CLOUDENV>>)]]]

\* security_group = template.add_resource(ec2.SecurityGroup(...))
AddSecurityGroup ==
    /\ pc = "security_group"
    /\ add_resource(SecurityGroup)
    /\ locals' = [locals EXCEPT !.security_group = SecurityGroup]
    /\ pc' = "launch_cfg"
    /\ UNCHANGED <<config, parameters, error>>

\* autoscaling.LaunchConfiguration("BabysitterLaunchConfiguration", ...)
LaunchConfiguration ==
    [kind |-> "LaunchConfiguration", title |-> BabysitterLaunchConfiguration,
     DependsOn |-> <<locals.babysitter_instance_profile.title,
                     locals.security_group.title>>,
     props |-> [ImageId |-> [fn |-> "FindInMap", map |-> "RegionMap",
                             key |-> RefName(AwsRegion),
                             second |-> "int(cfn.Amis.EBS)"],
                InstanceType |-> Ref(locals.babysitter_instance_class),
                IamInstanceProfile |-> Ref(locals.babysitter_instance_profile),
                AssociatePublicIpAddress |-> ~USE_PRIVATE_SUBNETS,
                BlockDeviceMappings |->
                  << [DeviceName |-> "/dev/sda1",
                      Ebs |-> [DeleteOnTermination |-> TRUE]] >>,
                KeyName |-> Ref(keyname),
                SecurityGroups |-> <<Ref(locals.security_group)>>,
                UserData |-> [fn |-> "Base64",
                              arg |-> locals.babysitter_user_data]]]

\* Variant of AddLaunchConfiguration: the negation of the flag is missing.
AddLaunchConfigurationNotNegated ==
    /\ pc = "launch_cfg"
    /\ add_resource([LaunchConfiguration EXCEPT
           !.props.AssociatePublicIpAddress = USE_PRIVATE_SUBNETS])
    /\ locals' = [locals EXCEPT !.launch_cfg = LaunchConfiguration]
    /\ pc' = "asg_name"
    /\ UNCHANGED <<config, parameters, error>>

\* launch_cfg = template.add_resource(autoscaling.LaunchConfiguration(...))
AddLaunchConfiguration ==
    /\ pc = "launch_cfg"
    /\ add_resource(LaunchConfiguration)
    /\ locals' = [locals EXCEPT !.launch_cfg = LaunchConfiguration]
    /\ pc' = "asg_name"
    /\ UNCHANGED <<config, parameters, error>>

\* asg_name = '.'.join(['babysitter', CLOUDNAME, CLOUDENV])
BuildAsgName ==
    /\ pc = "asg_name"
    /\ locals' = [locals EXCEPT
                    !.asg_name =
                        Join(<<".">>, <<Babysitter, CLOUDNAME, CLOUDENV>>)]
    /\ pc' = "asg"
    /\ UNCHANGED <<config, parameters, resources, error>>

\* [Ref(sn) for sn in cfn.get_vpc_subnets(cfn.vpcs[0], cfn.SubnetTypes.PLATFORM)]
PlatformSubnetRefs ==
    LET sns == get_vpc_subnets(vpcs[1], "PLATFORM")
    IN  [i \in 1..Len(sns) |-> Ref(sns[i])]

\* autoscaling.AutoScalingGroup("BabysitterASG", ...)
AutoScalingGroup ==
    [kind |-> "AutoScalingGroup", title |-> BabysitterASG,
     DependsOn |-> <<>>,
     props |-> [AvailabilityZones |-> get_asg_azs,
                DesiredCapacity |-> <<"1">>,
                LaunchConfigurationName |-> Ref(locals.launch_cfg),
                MinSize |-> <<"1">>,
                MaxSize |-> <<"1">>,
                NotificationConfiguration |->
                  [TopicARN |-> Ref(locals.alert_topic),
                   NotificationTypes |->
                     <<"autoscaling:EC2_INSTANCE_TERMINATE">>],
                VPCZoneIdentifier |-> PlatformSubnetRefs]]

\* Variant of AddAutoScalingGroup: the group may grow to two instances.
AddAutoScalingGroupGrowing ==
    /\ pc = "asg"
    /\ add_resource([AutoScalingGroup EXCEPT !.props.MaxSize = <<"2">>])
    /\ locals' = [locals EXCEPT !.asg = AutoScalingGroup]
    /\ pc' = "done"
    /\ UNCHANGED <<config, parameters, error>>

\* asg = template.add_resource(autoscaling.AutoScalingGroup(...))
AddAutoScalingGroup ==
    /\ pc = "asg"
    /\ add_resource(AutoScalingGroup)
    /\ locals' = [locals EXCEPT !.asg = AutoScalingGroup]
    /\ pc' = "done"
    /\ UNCHANGED <<config, parameters, error>>

Next ==
    \/ AddInstanceTypeParameter
    \/ AddAlarmEmailParameter
    \/ BuildQueueName
    \/ AddQueue
    \/ AddAlertTopic
    \/ AddQueueDepthAlarm
    \/ BuildRoleName
    \/ AddIamRole
    \/ AddInstanceProfile
    \/ LoadUserData
    \/ BuildIngressRules
    \/ AddSecurityGroup
    \/ AddLaunchConfiguration
    \/ BuildAsgName
    \/ AddAutoScalingGroup

Spec == Init /\ [][Next]_vars

-----------------------------------------------------------------------------
(* Reading the template. *)

\* The elements of a sequence.
Range(s) == {s[i] : i \in 1..Len(s)}

\* The positions of the descriptors of a kind.
IndexOf(kind) == {i \in 1..Len(resources) : resources[i].kind = kind}

\* A descriptor of the kind is registered.
Registered(kind) == IndexOf(kind) # {}

\* The kinds of the registered descriptors, in registration order.
Kinds == [i \in 1..Len(resources) |-> resources[i].kind]

\* The titles of the descriptors registered before position i.
TitlesBefore(i) == {resources[j].title : j \in 1..(i - 1)}

\* The eight kinds in the order the builder registers them.
FixedOrder ==
    <<"Queue", "Topic", "Alarm", "Role", "InstanceProfile", "SecurityGroup",
      "LaunchConfiguration", "AutoScalingGroup">>

\* The names are strings and every template file renders and parses.
ValidContext ==
    /\ CLOUDNAME # None
    /\ CLOUDENV # None
    /\ \A f \in TemplateFiles : files[f] = "ok"

\* chef-deregistration_{cloud}_{env}, written out.
ExpectedQueueName ==
    ChefDeregistration \o <<"_">> \o CLOUDNAME \o <<"_">> \o CLOUDENV

\* babysitter.{cloud}.{env}, written out.
ExpectedBabysitterName ==
    Babysitter \o <<".">> \o CLOUDNAME \o <<".">> \o CLOUDENV

-----------------------------------------------------------------------------
\* C1: the descriptors in the template are always a prefix of the fixed
\* order Queue, Topic, Alarm, Role, InstanceProfile, SecurityGroup,
\* LaunchConfiguration, AutoScalingGroup; a run with a valid context never
\* fails and does not stop before the end, and a finished run has registered
\* exactly the eight.
C1_EightInFixedOrder ==
    /\ Len(resources) <= Len(FixedOrder)
    /\ \A i \in 1..Len(resources) : Kinds[i] = FixedOrder[i]
    /\ pc = "done" => Kinds = FixedOrder
    /\ ValidContext => pc # "failed"
    /\ ValidContext /\ pc # "done" => ENABLED Next

C1_Witness ==
    /\ pc = "done"
    /\ Len(resources) = 8
    /\ CLOUDNAME = <<"a", "_">>
    /\ ~USE_PRIVATE_SUBNETS

\* C2: the registered Queue's QueueName is chef-deregistration_{cloud}_{env};
\* for cloud "acme" and environment "prod" it is
\* chef-deregistration_acme_prod.
C2_QueueName ==
    \A i \in IndexOf("Queue") :
        /\ resources[i].props.QueueName = ExpectedQueueName
        /\ CLOUDNAME = Acme /\ CLOUDENV = Prod =>
             resources[i].props.QueueName =
                 <<"c", "h", "e", "f", "-", "d", "e", "r", "e", "g", "i", "s",
                   "t", "r", "a", "t", "i", "o", "n", "_", "a", "c", "m", "e",
                   "_", "p", "r", "o", "d">>

C2_Witness ==
    /\ Registered("Queue")
    /\ CLOUDNAME = Acme
    /\ CLOUDENV = Prod

\* The names a descriptor carries: its title and its name properties.
NamesOf(r) ==
    {r.title}
    \cup (IF "QueueName" \in DOMAIN r.props THEN {r.props.QueueName} ELSE {})
    \cup (IF "TopicName" \in DOMAIN r.props THEN {r.props.TopicName} ELSE {})
    \cup (IF "Tags" \in DOMAIN r.props THEN {r.props.Tags.Name} ELSE {})

\* C3: the registered IAM Role and the registered Auto Scaling Group each
\* carry the name babysitter.{cloud}.{env}.
C3_RoleAndAsgNamed ==
    \A i \in IndexOf("Role") \cup IndexOf("AutoScalingGroup") :
        ExpectedBabysitterName \in NamesOf(resources[i])

\* The attribute a GetAtt reference resolves to: the property of that name
\* of the registered descriptor with the target title.
Resolve(ref) ==
    LET r == CHOOSE r \in Range(resources) : r.title = ref.target
    IN  r.props[ref.attr]

\* C4: the registered alarm has exactly one dimension, named QueueName,
\* whose value is a reference to the QueueName of the Queue registered
\* before it, which is chef-deregistration_{cloud}_{env}.
C4_AlarmDimension ==
    \A i \in IndexOf("Alarm") :
        LET dims == resources[i].props.Dimensions
        IN  /\ Len(dims) = 1
            /\ dims[1].Name = "QueueName"
            /\ dims[1].Value.fn = "GetAtt"
            /\ dims[1].Value.attr = "QueueName"
            /\ \E j \in IndexOf("Queue") :
                  /\ j < i
                  /\ resources[j].title = dims[1].Value.target
            /\ Resolve(dims[1].Value) = ExpectedQueueName

C4_Witness ==
    /\ Registered("Alarm")
    /\ CLOUDNAME = <<"_", "a">>
    /\ CLOUDENV = Prod

\* C5: the registered Security Group has exactly one ingress rule: TCP, from
\* port 22 to port 22, from the configured CIDR (DEFAULT_ROUTE).
C5_SingleSshIngress ==
    \A i \in IndexOf("SecurityGroup") :
        LET rules == resources[i].props.SecurityGroupIngress
        IN  /\ Len(rules) = 1
            /\ rules[1].IpProtocol = "tcp"
            /\ rules[1].FromPort = 22
            /\ rules[1].ToPort = 22
            /\ rules[1].CidrIp = DEFAULT_ROUTE

C5_Witness ==
    /\ Registered("SecurityGroup")
    /\ DEFAULT_ROUTE = "10.0.0.0/8"
    /\ CIDR_PREFIX = "10.1"

\* C6: the registered Launch Configuration associates a public IP address
\* exactly when the private-subnet flag is false.
C6_PublicIpIffNotPrivate ==
    \A i \in IndexOf("LaunchConfiguration") :
        (resources[i].props.AssociatePublicIpAddress = TRUE)
            <=> (USE_PRIVATE_SUBNETS = FALSE)

C6_Witness ==
    /\ Registered("LaunchConfiguration")
    /\ USE_PRIVATE_SUBNETS
    /\ pc = "done"

\* The number a string of decimal digits denotes.
DigitValue(c) ==
    CASE c = "0" -> 0 [] c = "1" -> 1 [] c = "2" -> 2 [] c = "3" -> 3
      [] c = "4" -> 4 [] c = "5" -> 5 [] c = "6" -> 6 [] c = "7" -> 7
      [] c = "8" -> 8 [] c = "9" -> 9

RECURSIVE Number(_)
Number(s) ==
    IF Len(s) = 0 THEN 0
    ELSE 10 * Number(SubSeq(s, 1, Len(s) - 1)) + DigitValue(s[Len(s)])

\* C7: the registered Auto Scaling Group has minimum size, maximum size and
\* desired capacity 1, whatever the configuration.
C7_AsgSizeOne ==
    \A i \in IndexOf("AutoScalingGroup") :
        /\ Number(resources[i].props.MinSize) = 1
        /\ Number(resources[i].props.MaxSize) = 1
        /\ Number(resources[i].props.DesiredCapacity) = 1

C7_Witness ==
    /\ Registered("AutoScalingGroup")
    /\ CLOUDNAME = <<"a">>
    /\ CLOUDENV = <<"_">>

\* The titles a descriptor names: its DependsOn list and the targets of the
\* symbolic references among its properties.
Targets(r) ==
    LET p == r.props
        T(refs) == {x.target : x \in Range(refs)}
    IN  Range(r.DependsOn) \cup
        CASE r.kind = "Queue" -> {}
          [] r.kind = "Topic" ->
               {x.Endpoint.target : x \in Range(p.Subscription)}
          [] r.kind = "Alarm" ->
               {x.Value.target : x \in Range(p.Dimensions)}
               \cup T(p.AlarmActions) \cup T(p.InsufficientDataActions)
          [] r.kind = "Role" -> {}
          [] r.kind = "InstanceProfile" -> T(p.Roles)
          [] r.kind = "SecurityGroup" -> {p.VpcId.target}
          [] r.kind = "LaunchConfiguration" ->
               {p.ImageId.key.target, p.InstanceType.target,
                p.IamInstanceProfile.target, p.KeyName.target}
               \cup T(p.SecurityGroups)
          [] r.kind = "AutoScalingGroup" ->
               {p.LaunchConfigurationName.target,
                p.NotificationConfiguration.TopicARN.target}
               \cup T(p.VPCZoneIdentifier)

\* What the configuration supplies from outside the builder: the first VPC
\* and its platform subnets, the key-pair parameter and the region pseudo
\* parameter.
Supplied ==
    {vpcs[1].title, keyname.title, AwsRegion}
    \cup {sn.title : sn \in Range(get_vpc_subnets(vpcs[1], "PLATFORM"))}

\* The title of the registered descriptor of a kind.
TitleOf(kind) == resources[CHOOSE i \in IndexOf(kind) : TRUE].title

\* C8: every title a registered descriptor depends on or refers to is that
\* of a descriptor registered before it, of a parameter already in the
\* template, or supplied from outside (the VPC); and the dependencies are
\* the stated ones: Topic on Queue, Alarm on Topic, Role and Security Group
\* on the first VPC, Instance Profile on Role, Launch Configuration on
\* Instance Profile and Security Group, Auto Scaling Group on Launch
\* Configuration and Topic.
C8_NoForwardReference ==
    \A i \in 1..Len(resources) :
        LET r == resources[i]
        IN  /\ Targets(r) \subseteq
                  TitlesBefore(i) \cup {q.title : q \in Range(parameters)}
                  \cup Supplied
            /\ r.kind = "Topic" => TitleOf("Queue") \in Range(r.DependsOn)
            /\ r.kind = "Alarm" => TitleOf("Topic") \in Range(r.DependsOn)
            /\ r.kind \in {"Role", "SecurityGroup"} =>
                  vpcs[1].title \in Range(r.DependsOn)
            /\ r.kind = "InstanceProfile" =>
                  TitleOf("Role") \in Range(r.DependsOn)
            /\ r.kind = "LaunchConfiguration" =>
                  {TitleOf("InstanceProfile"), TitleOf("SecurityGroup")}
                      \subseteq Range(r.DependsOn)
            /\ r.kind = "AutoScalingGroup" =>
                  {TitleOf("LaunchConfiguration"), TitleOf("Topic")}
                      \subseteq Targets(r)

C8_Witness ==
    /\ pc = "done"
    /\ Registered("AutoScalingGroup")
    /\ CLOUDNAME = <<"_", "_">>

\* The run has ended, by returning or by an exception.
Ended == pc \in {"done", "failed"}

\* C9 as claimed: a run that has ended left all eight descriptors in the
\* template, or none.
C9_AllOrNothing ==
    Ended => Len(resources) \in {0, Len(FixedOrder)}

\* C9 as amended: a failure ends the run at once and nothing is registered
\* after it, but what was registered before it stays.  The template holds
\* all eight descriptors after a run without failure, none after a name that
\* is no string, the first three (Queue, Topic, Alarm) after a failure to
\* load or parse a policy template, and the first five (up to the Instance
\* Profile) after a failure to load the boot script.
C9_PrefixOnFailure ==
    /\ pc = "done" => /\ ValidContext
                      /\ error = "none"
                      /\ Kinds = FixedOrder
    /\ pc = "failed" =>
          /\ ~ValidContext
          /\ ~ENABLED Next
          /\ Kinds = SubSeq(FixedOrder, 1, Len(resources))
          /\ Len(resources) =
                IF CLOUDNAME = None \/ CLOUDENV = None THEN 0
                ELSE IF \E f \in {"babysitter_policy.json.j2",
                                  "default_policy.json.j2"} : files[f] # "ok"
                THEN 3
                ELSE 5
    /\ pc \notin {"done", "failed"} => error = "none"

C9_Witness ==
    /\ pc = "failed"
    /\ error = "TemplateNotFound"
    /\ Len(resources) = 3
    /\ files["babysitter_policy.json.j2"] = "ok"

\* No two registered descriptors have the same title.
NamesUnique ==
    \A i, j \in 1..Len(resources) :
        i # j => resources[i].title # resources[j].title

\* A step leaves every descriptor already registered as it is, and
\* registers at most one more.
CreatedOnce ==
    /\ Len(resources') \in {Len(resources), Len(resources) + 1}
    /\ SubSeq(resources', 1, Len(resources)) = resources

\* C10: the titles of the registered descriptors, the sanitized queue name
\* among them, are pairwise distinct in every state, and no step changes or
\* removes a descriptor that is registered.
C10_UniqueAndImmutable == []NamesUnique /\ [][CreatedOnce]_vars

C10_Witness ==
    /\ pc = "done"
    /\ Len(resources) = 8
    /\ CLOUDNAME = <<"a", "_">>
    /\ CLOUDENV = <<"_", "a">>
    /\ resources[1].title # resources[1].props.QueueName

====
